---- MODULE Spec2Model ----
(***************************************************************************)
(* Model of pocketchemist_nmr/spectra/nmr_spectrum.py: the NMRSpectrum     *)
(* base class (reset, load, transpose, ft).                                *)
(*                                                                         *)
(* A tensor is a record [cplx, shape, axes, val]:                          *)
(*   cplx   TRUE when the elements are complex numbers (pairs <<re, im>>)  *)
(*   shape  the extent of every axis, outermost first                      *)
(*   axes   which acquired axis currently sits at each position            *)
(*   val    the element at every index (indices are 0-based, as in torch)  *)
(* Dimension arguments are 0-based as in the Python code; TLA+ sequences   *)
(* are 1-based, so dimension d is entry d + 1 of a sequence.               *)
(*                                                                         *)
(* History: call is the last call made (with its outcome, err) and prev    *)
(* the spectrum before it; ft also keeps the call before that (call2) and  *)
(* the spectrum before that one (prev2).  calls counts the calls, regular  *)
(* tells that every transpose so far had interleave_complex set and        *)
(* 0 <= dim0 < dim1 < ndims.                                               *)
(***************************************************************************)
EXTENDS Integers, Sequences, FiniteSets, TLC

VARIABLES data, meta, in_filepath, out_filepath,
          ndims, domain_type, data_type, sw, label, last_layout,
          err, call, prev, call2, prev2, calls, regular

vars == <<data, meta, in_filepath, out_filepath,
          ndims, domain_type, data_type, sw, label, last_layout,
          err, call, prev, call2, prev2, calls, regular>>

\* ---------------------------------------------------------------- bounds
\* number of points acquired along every axis
NPts == 2
\* largest number of dimensions of a spectrum
MaxDims == 3
\* number of transpose calls followed from a loaded spectrum
MaxCalls == 1
\* number of transpose calls followed where calls are made in a row
MaxSeqCalls == 2

\* attribute values are records, so that any two can be compared
None == [none |-> TRUE]
Absent == [absent |-> TRUE]
Path(p) == [path |-> p]
MetaDict(keys) == [keys |-> keys]
NoErr == "none"
NoCall == [op |-> "none"]

DataTypes == {"REAL", "IMAG", "COMPLEX"}
\* the data types of a spectrum as loaded: a file holds real or complex points
LoadedTypes == {"REAL", "COMPLEX"}
DomainTypes == {"TIME", "FREQ"}

Min(a, b) == IF a < b THEN a ELSE b
Max(a, b) == IF a < b THEN b ELSE a

\* ---------------------------------------------------------------- tensors
Indices(shape) ==
    LET RECURSIVE I(_)
        I(k) == IF k = 0 THEN {<<>>}
                ELSE {Append(p, i) : p \in I(k - 1), i \in 0..(shape[k] - 1)}
    IN I(Len(shape))

LastLen(t) == t.shape[Len(t.shape)]
SetLast(idx, s) == [idx EXCEPT ![Len(idx)] = s]
SetLastLen(t, n) == [t.shape EXCEPT ![Len(t.shape)] = n]

Swap(seq, dim0, dim1) ==
    [d \in 1..Len(seq) |->
        IF d = dim0 + 1 THEN seq[dim1 + 1]
        ELSE IF d = dim1 + 1 THEN seq[dim0 + 1]
        ELSE seq[d]]

\* torch.transpose(data, dim0, dim1)
TorchTranspose(t, dim0, dim1) ==
    LET shp == Swap(t.shape, dim0, dim1)
    IN [cplx |-> t.cplx,
        shape |-> shp,
        axes |-> Swap(t.axes, dim0, dim1),
        val |-> [idx \in Indices(shp) |-> t.val[Swap(idx, dim0, dim1)]]]

\* ---------------------------------------------------------------- layout codec
\* complex [..., N] -> real [..., 2N]: the N real parts, then the N imaginary
combine_block_from_complex(t) ==
    LET N == LastLen(t)
        shp == SetLastLen(t, 2 * N)
    IN [cplx |-> FALSE,
        shape |-> shp,
        axes |-> t.axes,
        val |-> [idx \in Indices(shp) |->
                    LET s == idx[Len(idx)]
                    IN IF s < N THEN t.val[idx][1]
                       ELSE t.val[SetLast(idx, s - N)][2]]]

\* real [..., 2N] -> complex [..., N]: first half real part, second imaginary
split_block_to_complex(t) ==
    LET N == LastLen(t) \div 2
        shp == SetLastLen(t, N)
    IN [cplx |-> TRUE,
        shape |-> shp,
        axes |-> t.axes,
        val |-> [idx \in Indices(shp) |->
                    <<t.val[idx], t.val[SetLast(idx, idx[Len(idx)] + N)]>>]]

\* (r0,i0,r1,i1,...) -> (r0,r1,...,i0,i1,...)
interleave_single_to_block(t) ==
    LET N == LastLen(t) \div 2
    IN [t EXCEPT !.val =
           [idx \in Indices(t.shape) |->
               LET s == idx[Len(idx)]
               IN IF s < N THEN t.val[SetLast(idx, 2 * s)]
                  ELSE t.val[SetLast(idx, 2 * (s - N) + 1)]]]

\* (r0,r1,...,i0,i1,...) -> (r0,i0,r1,i1,...)
interleave_block_to_single(t) ==
    LET N == LastLen(t) \div 2
    IN [t EXCEPT !.val =
           [idx \in Indices(t.shape) |->
               LET s == idx[Len(idx)]
               IN t.val[SetLast(idx, (s % 2) * N + (s \div 2))]]]

\* what the codec accepts: combine needs complex elements, the other three a
\* real tensor whose last axis holds pairs
CanCombine(t) == t.cplx
EvenLast(t) == LastLen(t) % 2 = 0
CanSplit(t) == ~t.cplx /\ EvenLast(t)

\* ---------------------------------------------------------------- spectrum
Raise(t, e) == [data |-> t, err |-> e]
Ok(t) == [data |-> t, err |-> NoErr]

\* data_layout(data_type, dim) of the concrete spectrum class: complex data is
\* single-interleaved in every dimension but the innermost, whose layout
\* (last_layout) is set by the file format
data_layout(n, fmt, dtype, dim) ==
    IF dtype # "COMPLEX" THEN "CONTIGUOUS"
    ELSE IF dim = n - 1 THEN fmt
    ELSE "SINGLE_INTERLEAVE"

\* mutant: a spectrum of one dimension passes the check
AnyDim(n) == n > 0

\* assert self.ndims > 1
MultiDim(n) == n > 1

\* mutant: the layout check is dropped
AnyLayout(before_layout1) == TRUE

\* assert before_layout1 is DataLayout.BLOCK_INTERLEAVE
LayoutSupported(before_layout1) == before_layout1 = "BLOCK_INTERLEAVE"

\* mutant: the layout check comes after the re-encoding of the last dimension
PreSwapLate(t, interleave_complex, n, dim1, data_type1, before_layout1, after_layout1) ==
    IF interleave_complex /\ n - 1 = dim1 /\ data_type1 = "COMPLEX"
    THEN LET c == IF CanCombine(t) THEN combine_block_from_complex(t)
                  ELSE interleave_single_to_block(t)
         IN IF before_layout1 # "BLOCK_INTERLEAVE" THEN Raise(c, "AssertionError")
            ELSE Ok(c)
    ELSE Ok(t)

\* the special case of the last dimension, before the transpose
PreSwap(t, interleave_complex, n, dim1, data_type1, before_layout1, after_layout1) ==
    IF interleave_complex /\ n - 1 = dim1 /\ data_type1 = "COMPLEX"
    THEN IF ~LayoutSupported(before_layout1) THEN Raise(t, "AssertionError")
         ELSE IF ~CanCombine(t) THEN Raise(t, "RuntimeError")
         ELSE LET c == combine_block_from_complex(t)
              IN IF after_layout1 = "SINGLE_INTERLEAVE"
                 THEN Ok(interleave_block_to_single(c))
                 ELSE Ok(c)
    ELSE Ok(t)

\* self.data = split_block_to_complex(self.data)
SplitLast(t) ==
    IF ~EvenLast(t) THEN Raise(t, "ShapeError")
    ELSE IF ~CanSplit(t) THEN Raise(t, "RuntimeError")
    ELSE Ok(split_block_to_complex(t))

\* the special case of the last dimension, after the transpose
PostSwap(t, interleave_complex, n, dim1, data_type0, before_layout0) ==
    IF interleave_complex /\ n - 1 = dim1 /\ data_type0 = "COMPLEX"
    THEN IF before_layout0 = "SINGLE_INTERLEAVE"
         THEN IF ~EvenLast(t) THEN Raise(t, "ShapeError")
              ELSE SplitLast(interleave_single_to_block(t))
         ELSE SplitLast(t)
    ELSE Ok(t)

\* the transpose and what follows it, unless the first part raised
Conduct(pre, interleave_complex, n, dim0, dim1, data_type0, before_layout0) ==
    IF pre.err # NoErr THEN pre
    ELSE PostSwap(TorchTranspose(pre.data, dim0, dim1),
                  interleave_complex, n, dim1, data_type0, before_layout0)

\* NMRSpectrum.transpose: the data it leaves and the exception it raises
transpose(t, n, fmt, dtypes, d0, d1, interleave_complex) ==
    IF ~MultiDim(n) THEN Raise(t, "AssertionError")
    ELSE LET dim0 == Min(d0, d1)
             dim1 == Max(d0, d1)
         IN IF dim1 >= n THEN Raise(t, "IndexError")
            ELSE LET data_type0 == dtypes[dim0 + 1]
                     data_type1 == dtypes[dim1 + 1]
                     before_layout0 == data_layout(n, fmt, data_type0, dim0)
                     before_layout1 == data_layout(n, fmt, data_type1, dim1)
                     after_layout0 == data_layout(n, fmt, data_type1, dim0)
                     after_layout1 == data_layout(n, fmt, data_type0, dim1)
                 IN Conduct(PreSwap(t, interleave_complex, n, dim1,
                                    data_type1, before_layout1, after_layout1),
                            interleave_complex, n, dim0, dim1,
                            data_type0, before_layout0)

\* mutant: the per-dimension properties stay as loaded
KeepMeta(seq, dim0, dim1) == seq

\* the per-dimension properties follow the order of the data
SwapMeta(seq, dim0, dim1) == Swap(seq, dim0, dim1)

\* the tensor a loader hands over: every axis encoded as data_layout reports.
\* A real element is named by its position in the acquired data: entry k is
\* 2 * point + part (part 0 real, 1 imaginary) along a COMPLEX axis k and the
\* point along any other axis.  A BLOCK_INTERLEAVE innermost axis is held as
\* complex numbers (the block halves already paired).
Extent(n, fmt, dtypes, d) ==
    IF dtypes[d] = "COMPLEX" /\ ~(d = n /\ fmt = "BLOCK_INTERLEAVE")
    THEN 2 * NPts ELSE NPts

Loaded(n, fmt, dtypes) ==
    LET shp == [d \in 1..n |-> Extent(n, fmt, dtypes, d)]
        native == dtypes[n] = "COMPLEX" /\ fmt = "BLOCK_INTERLEAVE"
    IN [cplx |-> native,
        shape |-> shp,
        axes |-> [d \in 1..n |-> d],
        val |-> [idx \in Indices(shp) |->
                    IF native
                    THEN <<SetLast(idx, 2 * idx[n]), SetLast(idx, 2 * idx[n] + 1)>>
                    ELSE idx]]

AxisNames == <<"X", "Y", "Z", "A", "B", "C">>

Snapshot == [data |-> data, domain_type |-> domain_type,
             data_type |-> data_type, sw |-> sw, label |-> label,
             meta |-> meta, in_filepath |-> in_filepath,
             out_filepath |-> out_filepath]

Init ==
    /\ ndims \in 1..MaxDims
    /\ data_type \in [1..ndims -> LoadedTypes]
    /\ last_layout \in {"BLOCK_INTERLEAVE", "SINGLE_INTERLEAVE"}
    /\ domain_type = [d \in 1..ndims |-> IF d = ndims THEN "FREQ" ELSE "TIME"]
    /\ sw = [d \in 1..ndims |-> 1000 * d]
    /\ label = [d \in 1..ndims |-> AxisNames[d]]
    /\ data = Loaded(ndims, last_layout, data_type)
    /\ meta = MetaDict({"FDDIMCOUNT"})
    /\ in_filepath = Path("in.fid")
    /\ out_filepath = None
    /\ err = NoErr
    /\ call = NoCall
    /\ prev = Snapshot
    /\ call2 = NoCall
    /\ prev2 = Snapshot
    /\ calls = 0
    /\ regular = TRUE

\* an exception propagates to the caller uncaught and ends the run
\* r is what transpose returns
Transposing(r, dim0, dim1) ==
    /\ data' = r.data
    /\ err' = r.err
    /\ IF r.err = NoErr
       THEN /\ domain_type' = SwapMeta(domain_type, dim0, dim1)
            /\ data_type' = SwapMeta(data_type, dim0, dim1)
            /\ sw' = SwapMeta(sw, dim0, dim1)
            /\ label' = SwapMeta(label, dim0, dim1)
       ELSE UNCHANGED <<domain_type, data_type, sw, label>>

TransposeCall(dim0, dim1, interleave_complex) ==
    /\ err = NoErr
    /\ Transposing(transpose(data, ndims, last_layout, data_type,
                             dim0, dim1, interleave_complex), dim0, dim1)
    /\ call' = [op |-> "transpose", dim0 |-> dim0, dim1 |-> dim1,
                interleave_complex |-> interleave_complex, err |-> err']
    /\ prev' = Snapshot
    /\ calls' = calls + 1
    /\ regular' = (regular /\ interleave_complex /\ dim0 < dim1 /\ dim1 < ndims)
    /\ UNCHANGED <<meta, in_filepath, out_filepath, ndims, last_layout,
                   call2, prev2>>

Transpose(dim0, dim1, interleave_complex) ==
    /\ calls < MaxCalls
    /\ TransposeCall(dim0, dim1, interleave_complex)

Next ==
    \E dim0 \in 0..(MaxDims - 1), dim1 \in 0..(MaxDims - 1),
       interleave_complex \in BOOLEAN :
        Transpose(dim0, dim1, interleave_complex)

Spec == Init /\ [][Next]_vars

\* the same calls, followed one after the other
TransposeAgain(dim0, dim1, interleave_complex) ==
    /\ calls < MaxSeqCalls
    /\ TransposeCall(dim0, dim1, interleave_complex)

NextSeq ==
    \E dim0 \in 0..(MaxDims - 1), dim1 \in 0..(MaxDims - 1),
       interleave_complex \in BOOLEAN :
        TransposeAgain(dim0, dim1, interleave_complex)

SpecSeq == Init /\ [][NextSeq]_vars

\* ---------------------------------------------------------------- transpose: properties
\* the elements' names at an index: one for a real element, two for a complex
Parts(t, idx) ==
    IF t.cplx THEN {t.val[idx][1], t.val[idx][2]} ELSE {t.val[idx]}

\* axis d (1-based) of tensor t is stored in the given layout
EncodedAs(t, d, layout) ==
    LET k == t.axes[d]
        n == Len(t.shape)
    IN CASE layout = "CONTIGUOUS" ->
              /\ t.shape[d] = NPts
              /\ d = n => ~t.cplx
              /\ \A idx \in Indices(t.shape) :
                    \A p \in Parts(t, idx) : p[k] = idx[d]
         [] layout = "SINGLE_INTERLEAVE" ->
              /\ t.shape[d] = 2 * NPts
              /\ d = n => ~t.cplx
              /\ \A idx \in Indices(t.shape) :
                    \A p \in Parts(t, idx) : p[k] = idx[d]
         [] layout = "BLOCK_INTERLEAVE" ->
              IF d = n /\ t.cplx
              THEN /\ t.shape[d] = NPts
                   /\ \A idx \in Indices(t.shape) :
                         /\ t.val[idx][1][k] = 2 * idx[d]
                         /\ t.val[idx][2][k] = 2 * idx[d] + 1
              ELSE /\ t.shape[d] = 2 * NPts
                   /\ \A idx \in Indices(t.shape) :
                         \A p \in Parts(t, idx) :
                            p[k] = 2 * (idx[d] % NPts) + (idx[d] \div NPts)

\* every axis of data is stored as data_layout reports for the current data_type
Consistent ==
    \A d \in 1..ndims :
        EncodedAs(data, d, data_layout(ndims, last_layout, data_type[d], d - 1))

\* the per-dimension sequences have one entry for each dimension
TypeOK ==
    /\ data_type \in [1..ndims -> DataTypes]
    /\ domain_type \in [1..ndims -> DomainTypes]
    /\ Len(sw) = ndims
    /\ Len(label) = ndims

Transposed == call.op = "transpose"
Succeeded == Transposed /\ err = NoErr
CallDim1 == Max(call.dim0, call.dim1)

\* C1: after any sequence of transpose(dim0, dim1, interleave_complex=True)
\* calls with 0 <= dim0 < dim1 < ndims on a spectrum loaded with a
\* BLOCK_INTERLEAVE innermost layout, every axis of data is stored in the
\* layout data_layout reports for the current data_type.
C1_LayoutKept ==
    (last_layout = "BLOCK_INTERLEAVE" /\ regular) => Consistent

\* C2: calling transpose(a, b) twice in a row on a loaded spectrum restores
\* data (values and shape) and domain_type, data_type, sw and label.
C2_Involution ==
    [][(/\ calls = 1 /\ Succeeded /\ call.interleave_complex
        /\ call' = call)
       => Snapshot' = prev]_vars

\* C3: a successful transpose(dim0, dim1) exchanges the two axes of data and
\* entries dim0 and dim1 of domain_type, data_type, sw and label, and leaves
\* the entries of every other dimension as they were.
SwappedFrom(new, old, a, b) ==
    /\ Len(new) = Len(old)
    /\ new[a + 1] = old[b + 1]
    /\ new[b + 1] = old[a + 1]
    /\ \A d \in 1..Len(old) : (d # a + 1 /\ d # b + 1) => new[d] = old[d]

C4_InvalidOperation ==
    (Transposed /\ ndims = 1) => err = "InvalidOperationError"

\* C4: transpose on a spectrum with ndims = 1 fails, for any dim0, dim1 and
\* interleave_complex, with the AssertionError of the assert statement, and
\* leaves the spectrum as it was.
C4_AssertOneDim ==
    (Transposed /\ ndims = 1) => (err = "AssertionError" /\ Snapshot = prev)

C4_Witness ==
    /\ Transposed /\ ndims = 1
    /\ call.dim0 = 0 /\ call.dim1 = 0
    /\ err = "AssertionError"

\* the layout check of a COMPLEX innermost dim1 applies and finds another
\* layout than BLOCK_INTERLEAVE
BadLastLayout ==
    /\ Transposed /\ ndims > 1
    /\ call.interleave_complex
    /\ CallDim1 = ndims - 1
    /\ prev.data_type[ndims] = "COMPLEX"
    /\ data_layout(ndims, last_layout, prev.data_type[ndims], CallDim1)
           # "BLOCK_INTERLEAVE"

\* C5 as stated: with interleave_complex, dim1 innermost and COMPLEX, a layout
\* other than BLOCK_INTERLEAVE makes transpose fail with UnsupportedLayoutError.
C5_UnsupportedLayout ==
    BadLastLayout => err = "UnsupportedLayoutError"

\* C5: with interleave_complex, dim1 innermost and COMPLEX, a layout other
\* than BLOCK_INTERLEAVE makes transpose fail with the AssertionError of the
\* assert statement.
C5_AssertLayout ==
    BadLastLayout => err = "AssertionError"

C5_Witness ==
    BadLastLayout /\ err = "AssertionError" /\ call.dim0 # call.dim1

\* C10: when transpose fails the ndims > 1 check or the BLOCK_INTERLEAVE check
\* it raises before any assignment: data and the per-dimension metadata are as
\* they were before the call.
C10_FailsUntouched ==
    ((Transposed /\ ndims = 1) \/ BadLastLayout) =>
        /\ err # NoErr
        /\ data = prev.data
        /\ domain_type = prev.domain_type
        /\ data_type = prev.data_type
        /\ sw = prev.sw
        /\ label = prev.label

C10_Witness ==
    /\ BadLastLayout /\ err = "AssertionError"
    /\ ndims = 3
    /\ call.dim0 > call.dim1
    /\ data = Loaded(ndims, last_layout, data_type)

\* ================================================================ ft
\* Sample values are Gaussian integers with both parts taken modulo
\* Modulus = 2 * HalfRange + 1, an odd number, so that the transform lengths
\* 2 and 4 are invertible and the inverse transform undoes the forward one
\* exactly.  For these lengths the twiddle factors exp(-2 pi i j k / N) are
\* the units 1, -i, -1, i.
HalfRange == 1
\* number of ft calls followed
MaxFtCalls == 2

Modulus == 2 * HalfRange + 1
FtLengths == {2, 4}
InitSamples == {<<1, 0>>, <<2, 1>>}

CAdd(x, y) == <<(x[1] + y[1]) % Modulus, (x[2] + y[2]) % Modulus>>
CMul(x, y) == <<(x[1] * y[1] - x[2] * y[2]) % Modulus,
                (x[1] * y[2] + x[2] * y[1]) % Modulus>>
CNeg(x) == <<(0 - x[1]) % Modulus, (0 - x[2]) % Modulus>>
CConj(x) == <<x[1], (0 - x[2]) % Modulus>>
CScale(m, x) == <<(m * x[1]) % Modulus, (m * x[2]) % Modulus>>

RECURSIVE CPow(_, _)
CPow(x, e) == IF e = 0 THEN <<1, 0>> ELSE CMul(x, CPow(x, e - 1))

\* exp(-2 pi i / N)
Omega(N) == IF N = 1 THEN <<1, 0>>
            ELSE IF N = 2 THEN CNeg(<<1, 0>>)
            ELSE CNeg(<<0, 1>>)

\* 1 / N
Reciprocal(N) == CHOOSE m \in 0..(Modulus - 1) : (m * N) % Modulus = 1

\* sum over j of x[j] * w^(j * k), along the last axis
Dft(t, w) ==
    LET N == LastLen(t)
        RECURSIVE S(_, _)
        S(idx, j) ==
            IF j = N THEN <<0, 0>>
            ELSE CAdd(CMul(t.val[SetLast(idx, j)],
                           CPow(w, (j * idx[Len(idx)]) % N)),
                      S(idx, j + 1))
    IN [t EXCEPT !.val = [idx \in Indices(t.shape) |-> S(idx, 0)]]

\* torch.fft.fft
fft(t) == Dft(t, Omega(LastLen(t)))

\* torch.fft.ifft
ifft(t) ==
    LET u == Dft(t, CConj(Omega(LastLen(t))))
    IN [u EXCEPT !.val = [idx \in Indices(t.shape) |->
                             CScale(Reciprocal(LastLen(t)), u.val[idx])]]

\* self.data.imag = 0.0
ZeroImag(t) ==
    [t EXCEPT !.val = [idx \in Indices(t.shape) |-> <<t.val[idx][1], 0>>]]

\* self.data[..., 1::2] = self.data[..., 1::2] * -1
NegateOdd(t) ==
    [t EXCEPT !.val = [idx \in Indices(t.shape) |->
                          IF idx[Len(idx)] % 2 = 1 THEN CNeg(t.val[idx])
                          ELSE t.val[idx]]]

\* self.data.imag *= -1.0
NegateImag(t) ==
    [t EXCEPT !.val = [idx \in Indices(t.shape) |-> CConj(t.val[idx])]]

\* mutant: the auto flag is ignored
AutoIgnored(auto) == FALSE

\* if auto: raise NotImplementedError
AutoUnsupported(auto) == auto

\* mutant: bruk forces real only
BrukAltForgotten(bruk, alt) == alt

\* if bruk: real = True; alt = True
BrukReal(bruk, real) == bruk \/ real
BrukAlt(bruk, alt) == bruk \/ alt

\* mutant: the samples are alternated before the inverse transform too
AltBeforeAlways(alt, inv) == alt

\* if alt and not inv
AltBefore(alt, inv) == alt /\ ~inv

\* if inv and alt
AltAfter(alt, inv) == inv /\ alt

\* NMRSpectrum.ft: the data it leaves and the exception it raises
ft(t, auto, real, inv, alt, neg, bruk) ==
    IF AutoUnsupported(auto) THEN Raise(t, "NotImplementedError")
    ELSE LET real_ == BrukReal(bruk, real)
             alt_ == BrukAlt(bruk, alt)
             d1 == IF real_ THEN ZeroImag(t) ELSE t
             d2 == IF AltBefore(alt_, inv) THEN NegateOdd(d1) ELSE d1
             d3 == IF neg THEN NegateImag(d2) ELSE d2
             d4 == IF inv THEN ifft(d3) ELSE fft(d3)
         IN Ok(IF AltAfter(alt_, inv) THEN NegateOdd(d4) ELSE d4)

\* r is what ft returns
Returning(r) ==
    /\ data' = r.data
    /\ err' = r.err

InitFT ==
    /\ ndims = 1
    /\ data_type = <<"COMPLEX">>
    /\ last_layout = "BLOCK_INTERLEAVE"
    /\ domain_type = <<"TIME">>
    /\ sw = <<1000>>
    /\ label = <<"X">>
    /\ \E N \in FtLengths :
         \E v \in [Indices(<<N>>) -> InitSamples] :
            data = [cplx |-> TRUE, shape |-> <<N>>, axes |-> <<1>>, val |-> v]
    /\ meta = MetaDict({"FDDIMCOUNT"})
    /\ in_filepath = Path("in.fid")
    /\ out_filepath = None
    /\ err = NoErr
    /\ call = NoCall
    /\ prev = Snapshot
    /\ call2 = NoCall
    /\ prev2 = Snapshot
    /\ calls = 0
    /\ regular = TRUE

Ft(auto, real, inv, alt, neg, bruk) ==
    /\ calls < MaxFtCalls
    /\ err = NoErr
    /\ Returning(ft(data, auto, real, inv, alt, neg, bruk))
    /\ call' = [op |-> "ft", auto |-> auto, real |-> real, inv |-> inv,
                alt |-> alt, neg |-> neg, bruk |-> bruk, err |-> err']
    /\ prev' = Snapshot
    /\ call2' = call
    /\ prev2' = prev
    /\ calls' = calls + 1
    /\ UNCHANGED <<meta, in_filepath, out_filepath, ndims, domain_type,
                   data_type, sw, label, last_layout, regular>>

NextFT ==
    \E auto \in BOOLEAN, real \in BOOLEAN, inv \in BOOLEAN,
       alt \in BOOLEAN, neg \in BOOLEAN, bruk \in BOOLEAN :
        Ft(auto, real, inv, alt, neg, bruk)

SpecFT == InitFT /\ [][NextFT]_vars

\* ---------------------------------------------------------------- ft: properties
FtCall(c, auto, real, inv, alt, neg, bruk) ==
    /\ c.op = "ft"
    /\ c.auto = auto /\ c.real = real /\ c.inv = inv
    /\ c.alt = alt /\ c.neg = neg /\ c.bruk = bruk

\* C6: ft with auto=True fails with NotImplementedError whatever the other
\* flags are, and leaves data as it was.
C6_AutoNotImplemented ==
    (call.op = "ft" /\ call.auto) =>
        (err = "NotImplementedError" /\ data = prev.data)

C6_Witness ==
    /\ FtCall(call, TRUE, TRUE, TRUE, TRUE, TRUE, TRUE)
    /\ err = "NotImplementedError"
    /\ \E idx \in DOMAIN data.val : data.val[idx][2] # 0

\* C7: ft(alt=True) followed by ft(inv=True, alt=True) returns every sample to
\* its value before the two calls; the forward call negates the odd-indexed
\* samples only before its transform and the inverse call only after it.
C7_AltRoundTrip ==
    (/\ FtCall(call2, FALSE, FALSE, FALSE, TRUE, FALSE, FALSE)
     /\ FtCall(call, FALSE, FALSE, TRUE, TRUE, FALSE, FALSE))
        => /\ data = prev2.data
           /\ prev.data = fft(NegateOdd(prev2.data))
           /\ data = NegateOdd(ifft(prev.data))

C7_Witness ==
    /\ FtCall(call2, FALSE, FALSE, FALSE, TRUE, FALSE, FALSE)
    /\ FtCall(call, FALSE, FALSE, TRUE, TRUE, FALSE, FALSE)
    /\ LastLen(data) = 4
    /\ data = prev2.data
    /\ data # prev.data
    /\ data.val[<<1>>] # data.val[<<3>>]

\* C8: ft with bruk=True gives the data ft gives with bruk=False, real=True,
\* alt=True and the same inv and neg, whatever real and alt were passed: the
\* imaginary parts are zeroed first and, when inv is false, the odd-indexed
\* samples are negated before the transform.
C8_BrukForcesRealAlt ==
    (call.op = "ft" /\ call.bruk /\ ~call.auto) =>
        /\ err = NoErr
        /\ data = ft(prev.data, FALSE, TRUE, call.inv, TRUE, call.neg, FALSE).data
        /\ LET z == ZeroImag(prev.data)
               a == IF call.inv THEN z ELSE NegateOdd(z)
               n == IF call.neg THEN NegateImag(a) ELSE a
           IN data = IF call.inv THEN NegateOdd(ifft(n)) ELSE fft(n)

C8_Witness ==
    /\ call.op = "ft" /\ call.bruk /\ ~call.auto
    /\ ~call.real /\ ~call.alt /\ ~call.inv
    /\ \E idx \in DOMAIN prev.data.val : prev.data.val[idx][2] # 0
    /\ prev.data.val[<<1>>] # <<0, 0>>
    /\ data # fft(prev.data)

\* ================================================================ reset, load
\* number of reset and load calls followed
MaxResetCalls == 2
\* longest attrs tuple passed to reset
MaxAttrs == 2

\* reset_attrs = ('data', 'in_filepath', 'out_filepath')
reset_attrs == <<"data", "in_filepath", "out_filepath">>

\* the names reset is given: the attributes of the class and ndims, a property
\* without a setter
AttrNames == {"data", "in_filepath", "out_filepath", "meta", "ndims"}
ReadOnly == {"ndims"}
MetaKeys == {"FDDIMCOUNT", "FDSIZE"}
Paths == {Path("in.fid"), Path("out.ft")}

Object == [meta |-> meta, data |-> data, in_filepath |-> in_filepath,
           out_filepath |-> out_filepath]

\* hasattr(self, 'meta') and hasattr(self.meta, 'clear')
HasClear(m) == "keys" \in DOMAIN m

\* self.meta.clear(), or a new dict of the annotated class
ClearedMeta(m) == IF HasClear(m) THEN MetaDict({}) ELSE MetaDict({})

\* mutant: attrs or self.reset_attrs, an empty tuple is taken for None
ResetAttrsFalsy(given, attrs) ==
    IF given /\ attrs # <<>> THEN attrs ELSE reset_attrs

\* attrs if attrs is not None else self.reset_attrs
ResetAttrs(given, attrs) == IF given THEN attrs ELSE reset_attrs

\* for attr in attrs: setattr(self, attr, None)
RECURSIVE SetAll(_, _, _)
SetAll(obj, attrs, i) ==
    IF i > Len(attrs) THEN [obj |-> obj, err |-> NoErr]
    ELSE IF attrs[i] \in ReadOnly THEN [obj |-> obj, err |-> "AttributeError"]
    ELSE SetAll([obj EXCEPT ![attrs[i]] = None], attrs, i + 1)

\* NMRSpectrum.reset; given is FALSE when attrs is None
reset(obj, given, attrs) ==
    SetAll([obj EXCEPT !.meta = ClearedMeta(obj.meta)],
           ResetAttrs(given, attrs), 1)

\* NMRSpectrum.load: reset every attribute of reset_attrs but the two paths
LoadAttrs ==
    SelectSeq(reset_attrs, LAMBDA a : a \notin {"in_filepath", "out_filepath"})

\* what the concrete class reads from the file after the reset
FileData == Loaded(1, "BLOCK_INTERLEAVE", <<"REAL">>)

\* NMRSpectrum.__init__(in_filepath, out_filepath) up to the reading of the file
Constructed(inp, out) ==
    LET blank == [meta |-> Absent, data |-> Absent, in_filepath |-> Absent,
                  out_filepath |-> Absent]
        r == reset(blank, FALSE, <<>>).obj
        o == [r EXCEPT !.in_filepath = inp, !.out_filepath = out]
    IN reset(o, TRUE, LoadAttrs).obj

InitReset ==
    /\ ndims = 1
    /\ data_type = <<"REAL">>
    /\ last_layout = "BLOCK_INTERLEAVE"
    /\ domain_type = <<"TIME">>
    /\ sw = <<1000>>
    /\ label = <<"X">>
    /\ \E inp \in Paths, out \in Paths \cup {None}, keys \in SUBSET MetaKeys :
         LET o == Constructed(inp, out)
         IN /\ meta = [o.meta EXCEPT !.keys = keys]
            /\ data = FileData
            /\ in_filepath = o.in_filepath
            /\ out_filepath = o.out_filepath
    /\ err = NoErr
    /\ call = NoCall
    /\ prev = Snapshot
    /\ call2 = NoCall
    /\ prev2 = Snapshot
    /\ calls = 0
    /\ regular = TRUE

History(c) ==
    /\ call' = c
    /\ prev' = Snapshot
    /\ calls' = calls + 1
    /\ UNCHANGED <<ndims, domain_type, data_type, sw, label, last_layout,
                   regular, call2, prev2>>

Reset(given, attrs) ==
    /\ calls < MaxResetCalls
    /\ err = NoErr
    /\ LET r == reset(Object, given, attrs)
       IN /\ meta' = r.obj.meta
          /\ data' = r.obj.data
          /\ in_filepath' = r.obj.in_filepath
          /\ out_filepath' = r.obj.out_filepath
          /\ err' = r.err
    /\ History([op |-> "reset", given |-> given, attrs |-> attrs, err |-> err'])

\* load(): the reset of the base class, then the file is read
Load(keys) ==
    /\ calls < MaxResetCalls
    /\ err = NoErr
    /\ LET r == reset(Object, TRUE, LoadAttrs)
       IN /\ meta' = [r.obj.meta EXCEPT !.keys = keys]
          /\ data' = FileData
          /\ in_filepath' = r.obj.in_filepath
          /\ out_filepath' = r.obj.out_filepath
          /\ err' = r.err
    /\ History([op |-> "load", err |-> err'])

AttrTuples ==
    UNION {[1..k -> AttrNames] : k \in 0..MaxAttrs}

NextReset ==
    \/ \E attrs \in AttrTuples : Reset(TRUE, attrs)
    \/ Reset(FALSE, <<>>)
    \/ \E keys \in SUBSET MetaKeys : Load(keys)

SpecReset == InitReset /\ [][NextReset]_vars

\* ---------------------------------------------------------------- reset: properties
WasReset == call.op = "reset"
Named == LET a == IF call.given THEN call.attrs ELSE reset_attrs
         IN {a[i] : i \in 1..Len(a)}
PlainAttrs == {"data", "in_filepath", "out_filepath"}

====
